---- MODULE Spec2Model ----
(***************************************************************************)
(* Model of main.py: the POST /generate-image relay.  A request generates  *)
(* an image (generate_gemini_image), uploads it (upload_image_to_gcs) and  *)
(* forwards the public URL with the caller's Authorization header to the   *)
(* Spring backend (send_to_spring_backend).                                *)
(*                                                                         *)
(* Spec    : the process (startup, then concurrently served requests).     *)
(* SpecGen : generate_gemini_image applied to every bounded model outcome. *)
(***************************************************************************)
EXTENDS Naturals, Sequences, FiniteSets, TLC

VARIABLES
    env,          \* os.environ at process start: GEMINI_API_KEY, SPRING_BACKEND_URL
    phase,        \* "boot" | "serving" | "aborted" (module import of main.py)
    pc,           \* per request: position in generate_image_post
    jwt_token,    \* per request: request.headers.get("Authorization")
    warned,       \* per request: the warning of line 121 was printed
    image_bytes,  \* per request: value returned by generate_gemini_image
    uploads,      \* per request: object keys passed to blob.upload_from_string, in order
    upload_ok,    \* per request: "none" | "ok" | "failed"
    public_url,   \* per request: value returned by upload_image_to_gcs
    bucket,       \* object storage: key -> bytes
    next_uuid,    \* source of uuid.uuid4(): every draw is fresh
    sent,         \* per request: the POST the Spring backend was sent (or NotSent)
    downstream,   \* per request: what came back from the POST
    response,     \* per request: the HTTP response of the endpoint
    calls,        \* per request: how often each of the three steps was invoked
    g_call,       \* SpecGen: outcome of client.models.generate_content
    g_raised,     \* SpecGen: the scan of lines 70-77 raised
    g_result,     \* SpecGen: value returned by generate_gemini_image
    g_pc          \* SpecGen: "off" | "ready" | "returned"

vars == <<env, phase, pc, jwt_token, warned, image_bytes, uploads, upload_ok,
          public_url, bucket, next_uuid, sent, downstream, response, calls,
          g_call, g_raised, g_result, g_pc>>

reqVars == <<env, phase, pc, jwt_token, warned, image_bytes, uploads, upload_ok,
             public_url, bucket, next_uuid, sent, downstream, response, calls>>

genVars == <<g_call, g_raised, g_result, g_pc>>

----------------------------------------------------------------------------
(* Bounds *)

NumReqs == 2
MaxCands == 2
MaxParts == 2

Reqs == 1..NumReqs

----------------------------------------------------------------------------
(* Python values *)

\* Python's None.
None == "<None>"

\* An exception leaving a function instead of a return value.
Raised == "<raise>"

\* bool(x) for an Optional[str] / Optional[bytes]: None and the empty value are falsy.
Truthy(x) == x # None /\ x # ""

\* Payloads of inline_data.data: empty bytes and two distinct non-empty images.
Payloads == {"", "A", "B"}

\* Sequences over S of length at most n.
SeqUpTo(S, n) == UNION {[1..k -> S] : k \in 0..n}

----------------------------------------------------------------------------
(* generate_gemini_image, lines 43-82 *)

\* A content part: a text part has inline_data None.
Parts == {[inline |-> FALSE, data |-> None]} \cup {[inline |-> TRUE, data |-> d] : d \in Payloads}

\* A candidate: content (and content.parts) present, or missing so that
\* c.content.parts raises.
Candidates == {[content_ok |-> FALSE, parts |-> <<>>]} \cup {[content_ok |-> TRUE, parts |-> ps] : ps \in SeqUpTo(Parts, MaxParts)}

\* A response: candidates is a list, or None so that iterating it raises.
Responses == {[candidates_ok |-> FALSE, candidates |-> <<>>]} \cup {[candidates_ok |-> TRUE, candidates |-> cs] : cs \in SeqUpTo(Candidates, MaxCands)}

\* Outcome of client.models.generate_content: an exception, or a response.
ModelCalls == {[ok |-> FALSE, response |-> [candidates_ok |-> FALSE, candidates |-> <<>>]]} \cup {[ok |-> TRUE, response |-> r] : r \in Responses}

\* Line 73: hasattr(part, 'inline_data') and part.inline_data is not None.
HasInlineData(part) == part.inline

\* Line 76: if image_bytes: break.
CandidateLoopBreaks(ib) == Truthy(ib)

\* Lines 71-75: the inner loop over c.content.parts; image_bytes is assigned
\* from the first part with inline data and the loop breaks.
RECURSIVE ScanParts(_, _, _)
ScanParts(parts, i, ib) ==
    IF i > Len(parts) THEN ib
    ELSE IF HasInlineData(parts[i]) THEN parts[i].data
    ELSE ScanParts(parts, i + 1, ib)

\* Lines 70-77: the outer loop over response.candidates.
RECURSIVE ScanCandidates(_, _, _)
ScanCandidates(cands, i, ib) ==
    IF i > Len(cands) THEN [raised |-> FALSE, image_bytes |-> ib]
    ELSE IF ~cands[i].content_ok THEN [raised |-> TRUE, image_bytes |-> ib]
    ELSE LET found == ScanParts(cands[i].parts, 1, ib)
         IN  IF CandidateLoopBreaks(found)
             THEN [raised |-> FALSE, image_bytes |-> found]
             ELSE ScanCandidates(cands, i + 1, found)

\* Lines 68-80 as a whole: whether the try block raised, and image_bytes.
ScanResponse(resp) ==
    IF ~resp.candidates_ok THEN [raised |-> TRUE, image_bytes |-> None]
    ELSE ScanCandidates(resp.candidates, 1, None)

\* Lines 63-65: except Exception around the model call: return None.
OnCallException == None

\* Lines 78-80: except Exception around the scan: return None.
OnParseExceptionKeep(ib) == ib
OnParseException(ib) == None

\* Lines 52-82.
generate_gemini_image(call) ==
    IF ~call.ok THEN OnCallException
    ELSE LET s == ScanResponse(call.response)
         IN  IF s.raised THEN OnParseException(s.image_bytes) ELSE s.image_bytes

\* Every value generate_gemini_image can return to the endpoint.
GenOutcomes == {generate_gemini_image(c) : c \in ModelCalls}

----------------------------------------------------------------------------
(* Process start, lines 12-24 *)

\* Values an environment variable can have at process start.
EnvValues == {None, "", "set"}

\* Lines 13 and 23: if not API_KEY / if not SPRING_BACKEND_URL.
RequiredEnvMissingOnlyNone(v) == v = None
RequiredEnvMissing(v) == ~Truthy(v)

\* Lines 12-24: module import raises ValueError when a required variable is missing.
StartupResult(e) ==
    IF RequiredEnvMissing(e.GEMINI_API_KEY) THEN "aborted"
    ELSE IF RequiredEnvMissing(e.SPRING_BACKEND_URL) THEN "aborted"
    ELSE "serving"

----------------------------------------------------------------------------
(* HTTP responses of the endpoint *)

NoResponse == [status |-> 0, kind |-> "none", error |-> None, error_arg |-> None, image_url |-> None, spring_backend_response |-> None]

\* JSONResponse({"error": <msg><arg>}, status_code=status).
ErrorResponse(status, msg, arg) == [status |-> status, kind |-> "json", error |-> msg, error_arg |-> arg, image_url |-> None, spring_backend_response |-> None]

\* Lines 136-139: JSONResponse({"image_url": ..., "spring_backend_response": ...}, 200).
SuccessResponseNoBody(url, data) == [status |-> 200, kind |-> "json", error |-> None, error_arg |-> None, image_url |-> url, spring_backend_response |-> None]
SuccessResponse(url, data) == [status |-> 200, kind |-> "json", error |-> None, error_arg |-> None, image_url |-> url, spring_backend_response |-> data]

\* An exception that leaves generate_image_post: the framework answers with
\* a plain 500 "Internal Server Error".
FaultResponse == [status |-> 500, kind |-> "fault", error |-> "Internal Server Error", error_arg |-> None, image_url |-> None, spring_backend_response |-> None]

\* Line 126.
GenerationFailureResponse == ErrorResponse(500, "Failed to generate image from Gemini. Check Gemini API logs for details.", None)

----------------------------------------------------------------------------
(* upload_image_to_gcs, lines 32-41, and the filename of line 129 *)

BUCKET_NAME == "map-of-memory-bucket"
IMAGE_DIR == "ai-images"

\* str(uuid.uuid4()) for the n-th draw of the process.
UuidStr(n) == "uuid" \o ToString(n)

\* Line 129: filename = f"{uuid.uuid4()}.png".
NewFilenameFixed(n) == "image.png"
NewFilename(n) == UuidStr(n) \o ".png"

\* Line 39: f"{IMAGE_DIR}/{filename}".
ObjectKey(filename) == IMAGE_DIR \o "/" \o filename

\* Line 41: blob.public_url.
PublicUrl(key) == "https://storage.googleapis.com/" \o BUCKET_NAME \o "/" \o key

\* Line 40: blob.upload_from_string writes the whole buffer under the key.
UploadFromString(b, key, data) == (key :> data) @@ b

----------------------------------------------------------------------------
(* send_to_spring_backend, lines 84-111 *)

\* Values of request.headers.get("Authorization"): absent, empty, a token.
AuthHeaders == {None, "", "Bearer tokA"}

NotSent == [imageUrl |-> None, Authorization |-> None]
NoDownstream == [kind |-> "none", status |-> 0, text |-> None]

\* Outcomes of the awaited POST: no response (connection failure, timeout),
\* or a response with a status and a body text.
Statuses == {200, 201, 302, 503}
Bodies == {"{\"id\": 7}", "Service Unavailable"}
DownstreamOutcomes == {[kind |-> "request_error", status |-> 0, text |-> None]} \cup {[kind |-> "reply", status |-> s, text |-> t] : s \in Statuses, t \in Bodies}

\* Line 99: the HTTP client only accepts str or bytes header values; a None
\* value makes client.post raise before anything is sent.
HeaderValueAccepted(v) == v # None

\* Line 100: raise_for_status() raises HTTPStatusError unless the status is 2xx.
RaiseForStatus(status) == ~(status >= 200 /\ status < 300)

\* Lines 101-102: spring_response.json(): whether the body text is JSON,
\* and the Python value it parses to.
JsonValid(text) == text = "{\"id\": 7}"
JsonParse(text) == IF text = "{\"id\": 7}" THEN "dict(id=7)" ELSE Raised

HTTPException(status_code, msg, arg) == [ok |-> FALSE, value |-> None, status_code |-> status_code, detail |-> msg, detail_arg |-> arg]

\* Lines 106-108: except httpx.HTTPStatusError.
OnHTTPStatusErrorAs500(status, text) == HTTPException(500, "Spring backend returned an error: ", text)
OnHTTPStatusError(status, text) == HTTPException(status, "Spring backend returned an error: ", text)

\* Lines 103-105: except httpx.RequestError.
OnRequestError == HTTPException(500, "Failed to connect to Spring backend: ", "RequestError")

\* Lines 109-111: except Exception.
OnUnexpectedError(what) == HTTPException(500, "An unexpected error occurred: ", what)

\* Lines 96-111, from the outcome of the POST on.
send_to_spring_backend(out) ==
    IF out.kind = "request_error" THEN OnRequestError
    ELSE IF RaiseForStatus(out.status) THEN OnHTTPStatusError(out.status, out.text)
    ELSE IF ~JsonValid(out.text) THEN OnUnexpectedError("JSONDecodeError")
    ELSE [ok |-> TRUE, value |-> JsonParse(out.text), status_code |-> 0, detail |-> None, detail_arg |-> None]

\* Lines 134-141: the endpoint's response for a result of send_to_spring_backend.
ForwardResponse(url, res) ==
    IF res.ok THEN SuccessResponse(url, res.value)
    ELSE ErrorResponse(res.status_code, res.detail, res.detail_arg)

----------------------------------------------------------------------------
(* generate_image_post, lines 114-143, one action per externally visible step *)

NoCalls == [generate |-> 0, upload |-> 0, forward |-> 0]

\* Line 125: if not image_bytes.
GenerationFailedNever(ib) == FALSE
GenerationFailed(ib) == ~Truthy(ib)

\* Lines 129-131: upload_image_to_gcs is called outside every try block, so an
\* exception it raises ends the handler and the framework answers.
AfterUploadExceptionSwallowed == [pc |-> "forward", response |-> NoResponse]
AfterUploadException == [pc |-> "done", response |-> FaultResponse]

\* Lines 140-143: where the handler goes after send_to_spring_backend raised:
\* it returns the error response; there is no retry and no clean-up.
AfterForwardErrorRetry == "forward"
AfterForwardError == "done"

Init ==
    /\ env \in [GEMINI_API_KEY : EnvValues, SPRING_BACKEND_URL : EnvValues]
    /\ phase = "boot"
    /\ pc = [r \in Reqs |-> "idle"]
    /\ jwt_token = [r \in Reqs |-> None]
    /\ warned = [r \in Reqs |-> FALSE]
    /\ image_bytes = [r \in Reqs |-> None]
    /\ uploads = [r \in Reqs |-> <<>>]
    /\ upload_ok = [r \in Reqs |-> "none"]
    /\ public_url = [r \in Reqs |-> None]
    /\ bucket = <<>>
    /\ next_uuid = 1
    /\ sent = [r \in Reqs |-> NotSent]
    /\ downstream = [r \in Reqs |-> NoDownstream]
    /\ response = [r \in Reqs |-> NoResponse]
    /\ calls = [r \in Reqs |-> NoCalls]
    /\ g_call = [ok |-> FALSE, response |-> [candidates_ok |-> FALSE, candidates |-> <<>>]]
    /\ g_raised = FALSE
    /\ g_result = None
    /\ g_pc = "off"

\* Lines 12-24: the module is imported; the app serves only if that succeeds.
Startup ==
    /\ phase = "boot"
    /\ phase' = StartupResult(env)
    /\ UNCHANGED <<env, pc, jwt_token, warned, image_bytes, uploads, upload_ok,
                   public_url, bucket, next_uuid, sent, downstream, response, calls>>
    /\ UNCHANGED genVars

\* Lines 119-126: read the Authorization header, warn if it is missing,
\* generate the image, answer 500 if there is none.
HandleRequest(r) ==
    /\ phase = "serving"
    /\ pc[r] = "idle"
    /\ \E tok \in AuthHeaders, ib \in GenOutcomes :
        /\ jwt_token' = [jwt_token EXCEPT ![r] = tok]
        /\ warned' = [warned EXCEPT ![r] = ~Truthy(tok)]
        /\ calls' = [calls EXCEPT ![r].generate = @ + 1]
        /\ image_bytes' = [image_bytes EXCEPT ![r] = ib]
        /\ IF ib = Raised
           THEN /\ response' = [response EXCEPT ![r] = FaultResponse]
                /\ pc' = [pc EXCEPT ![r] = "done"]
           ELSE IF GenerationFailed(ib)
           THEN /\ response' = [response EXCEPT ![r] = GenerationFailureResponse]
                /\ pc' = [pc EXCEPT ![r] = "done"]
           ELSE /\ response' = response
                /\ pc' = [pc EXCEPT ![r] = "upload"]
    /\ UNCHANGED <<env, phase, uploads, upload_ok, public_url, bucket, next_uuid,
                   sent, downstream>>
    /\ UNCHANGED genVars

\* Lines 129-131 with upload_image_to_gcs, lines 37-41.  The upload either
\* writes the object and returns its public URL, or raises; the call is outside
\* every try block, so the exception leaves the handler.
Upload(r) ==
    /\ pc[r] = "upload"
    /\ LET filename == NewFilename(next_uuid)
           key == ObjectKey(filename)
       IN  /\ next_uuid' = next_uuid + 1
           /\ calls' = [calls EXCEPT ![r].upload = @ + 1]
           /\ uploads' = [uploads EXCEPT ![r] = Append(@, key)]
           /\ \/ /\ bucket' = UploadFromString(bucket, key, image_bytes[r])
                 /\ upload_ok' = [upload_ok EXCEPT ![r] = "ok"]
                 /\ public_url' = [public_url EXCEPT ![r] = PublicUrl(key)]
                 /\ pc' = [pc EXCEPT ![r] = "forward"]
                 /\ response' = response
              \/ /\ bucket' = bucket
                 /\ upload_ok' = [upload_ok EXCEPT ![r] = "failed"]
                 /\ public_url' = public_url
                 /\ pc' = [pc EXCEPT ![r] = AfterUploadException.pc]
                 /\ response' = [response EXCEPT ![r] = AfterUploadException.response]
    /\ UNCHANGED <<env, phase, jwt_token, warned, image_bytes, sent, downstream>>
    /\ UNCHANGED genVars

\* Line 135 into lines 88-99: the headers carry jwt_token as it is; the POST
\* is sent and awaited, or client.post raises locally (lines 109-111, 140-141).
ForwardSend(r) ==
    /\ pc[r] = "forward"
    /\ calls' = [calls EXCEPT ![r].forward = @ + 1]
    /\ IF HeaderValueAccepted(jwt_token[r])
       THEN /\ sent' = [sent EXCEPT ![r] = [imageUrl |-> public_url[r], Authorization |-> jwt_token[r]]]
            /\ pc' = [pc EXCEPT ![r] = "awaiting"]
            /\ UNCHANGED <<downstream, response>>
       ELSE /\ sent' = sent
            /\ downstream' = [downstream EXCEPT ![r] = [kind |-> "local_error", status |-> 0, text |-> None]]
            /\ response' = [response EXCEPT ![r] = ForwardResponse(public_url[r], OnUnexpectedError("TypeError"))]
            /\ pc' = [pc EXCEPT ![r] = AfterForwardError]
    /\ UNCHANGED <<env, phase, jwt_token, warned, image_bytes, uploads, upload_ok,
                   public_url, bucket, next_uuid>>
    /\ UNCHANGED genVars

\* Lines 99-111 and 136-143: the awaited POST completes and the endpoint answers.
ForwardReply(r) ==
    /\ pc[r] = "awaiting"
    /\ \E out \in DownstreamOutcomes :
        LET res == send_to_spring_backend(out)
        IN  /\ downstream' = [downstream EXCEPT ![r] = out]
            /\ response' = [response EXCEPT ![r] = ForwardResponse(public_url[r], res)]
            /\ pc' = [pc EXCEPT ![r] = IF res.ok THEN "done" ELSE AfterForwardError]
    /\ UNCHANGED <<env, phase, jwt_token, warned, image_bytes, uploads, upload_ok,
                   public_url, bucket, next_uuid, sent, calls>>
    /\ UNCHANGED genVars

Next ==
    \/ Startup
    \/ \E r \in Reqs : HandleRequest(r)
    \/ \E r \in Reqs : Upload(r)
    \/ \E r \in Reqs : ForwardSend(r)
    \/ \E r \in Reqs : ForwardReply(r)

Spec == Init /\ [][Next]_vars

----------------------------------------------------------------------------
(* SpecGen: generate_gemini_image on every bounded outcome of the model call *)

InitGen ==
    /\ env = [GEMINI_API_KEY |-> "set", SPRING_BACKEND_URL |-> "set"]
    /\ phase = "boot"
    /\ pc = [r \in Reqs |-> "idle"]
    /\ jwt_token = [r \in Reqs |-> None]
    /\ warned = [r \in Reqs |-> FALSE]
    /\ image_bytes = [r \in Reqs |-> None]
    /\ uploads = [r \in Reqs |-> <<>>]
    /\ upload_ok = [r \in Reqs |-> "none"]
    /\ public_url = [r \in Reqs |-> None]
    /\ bucket = <<>>
    /\ next_uuid = 1
    /\ sent = [r \in Reqs |-> NotSent]
    /\ downstream = [r \in Reqs |-> NoDownstream]
    /\ response = [r \in Reqs |-> NoResponse]
    /\ calls = [r \in Reqs |-> NoCalls]
    /\ g_call \in ModelCalls
    /\ g_raised = FALSE
    /\ g_result = None
    /\ g_pc = "ready"

\* Lines 43-82 applied to the outcome g_call of the model call.
GenerateGeminiImage ==
    /\ g_pc = "ready"
    /\ g_result' = generate_gemini_image(g_call)
    /\ g_raised' = (g_call.ok /\ ScanResponse(g_call.response).raised)
    /\ g_pc' = "returned"
    /\ UNCHANGED g_call
    /\ UNCHANGED reqVars

NextGen == GenerateGeminiImage

SpecGen == InitGen /\ [][NextGen]_vars

----------------------------------------------------------------------------
(* Claims *)

Is2xx(status) == status >= 200 /\ status < 300

\* C1: a request whose generation returned no image data is answered with
\* status 500 and an error payload, and neither the upload nor the forward
\* is ever called for it.
C1_NoImageMeans500AndNoUpload ==
    \A r \in Reqs :
        (calls[r].generate > 0 /\ image_bytes[r] \in {None, ""}) =>
            /\ pc[r] = "done"
            /\ response[r].status = 500
            /\ response[r].kind = "json"
            /\ response[r].error # None
            /\ calls[r].upload = 0
            /\ calls[r].forward = 0
            /\ uploads[r] = <<>>
            /\ sent[r] = NotSent

C1_Witness ==
    \E r \in Reqs :
        /\ calls[r].generate = 1
        /\ image_bytes[r] = None
        /\ pc[r] = "done"
        /\ response[r].status = 500

\* C2: when the forward fails after generation and upload succeeded, a
\* non-2xx answer of the downstream gives a response with the downstream's
\* status and its text in the error; no downstream answer (connection
\* failure, timeout, local error) gives status 500.
C2_ForwardFailureStatus ==
    \A r \in Reqs :
        (pc[r] = "done" /\ upload_ok[r] = "ok") =>
            /\ (downstream[r].kind = "reply" /\ ~Is2xx(downstream[r].status)) =>
                  /\ response[r].status = downstream[r].status
                  /\ response[r].error # None
                  /\ response[r].error_arg = downstream[r].text
            /\ (downstream[r].kind \in {"request_error", "local_error"}
                  \/ (downstream[r].kind = "reply" /\ Is2xx(downstream[r].status)
                        /\ downstream[r].text = "Service Unavailable")) =>
                  /\ response[r].status = 500
                  /\ response[r].error # None

C2_Witness ==
    \E r \in Reqs :
        /\ pc[r] = "done"
        /\ downstream[r] = [kind |-> "reply", status |-> 503, text |-> "Service Unavailable"]
        /\ response[r].status = 503
        /\ response[r].error_arg = "Service Unavailable"

\* C3: a request without an Authorization header goes through the same
\* steps as one with a token: the warning is logged, generation and upload
\* run, and after a successful upload the POST reaches the downstream with
\* the empty/absent token, whose outcome decides the response.
C3_MissingAuthorizationSameSteps ==
    \A r \in Reqs :
        (pc[r] # "idle" /\ jwt_token[r] \in {None, ""}) =>
            /\ warned[r]
            /\ calls[r].generate = 1
            /\ (image_bytes[r] \in {"A", "B"} /\ pc[r] # "upload") => calls[r].upload = 1
            /\ (upload_ok[r] = "ok" /\ pc[r] = "done") =>
                  /\ sent[r] = [imageUrl |-> public_url[r], Authorization |-> jwt_token[r]]
                  /\ downstream[r] \in DownstreamOutcomes

C5_OneObjectPerRequestDistinctKeys ==
    /\ \A r \in Reqs : Len(uploads[r]) <= 1
    /\ \A r1, r2 \in Reqs : \A i \in DOMAIN uploads[r1], j \in DOMAIN uploads[r2] :
          (uploads[r1][i] = uploads[r2][j]) => (r1 = r2 /\ i = j)
    /\ \A r \in Reqs : upload_ok[r] = "ok" =>
          /\ uploads[r][1] \in DOMAIN bucket
          /\ bucket[uploads[r][1]] = image_bytes[r]
    /\ Cardinality(DOMAIN bucket) = Cardinality({r \in Reqs : upload_ok[r] = "ok"})

C5_Witness ==
    /\ \A r \in Reqs : upload_ok[r] = "ok"
    /\ Cardinality(DOMAIN bucket) = NumReqs
    /\ \E r1, r2 \in Reqs : r1 # r2 /\ image_bytes[r1] # image_bytes[r2]

\* C6: startup is fail-fast: with GEMINI_API_KEY or SPRING_BACKEND_URL
\* absent or empty the process aborts and no request is ever handled; every
\* handled request runs with both values set.
C6_FailFastStartup ==
    /\ (phase # "boot" /\ (env.GEMINI_API_KEY \in {None, ""} \/ env.SPRING_BACKEND_URL \in {None, ""}))
          => phase = "aborted"
    /\ phase = "aborted" => \A r \in Reqs : pc[r] = "idle" /\ calls[r] = NoCalls
    /\ \A r \in Reqs : pc[r] # "idle" =>
          /\ phase = "serving"
          /\ env.GEMINI_API_KEY \notin {None, ""}
          /\ env.SPRING_BACKEND_URL \notin {None, ""}

C6_Witness ==
    /\ phase = "aborted"
    /\ env.GEMINI_API_KEY = "set"
    /\ env.SPRING_BACKEND_URL = ""

\* All parts of a well-formed response, in candidate order then part order.
RECURSIVE AllParts(_, _)
AllParts(cands, i) ==
    IF i > Len(cands) THEN <<>> ELSE cands[i].parts \o AllParts(cands, i + 1)

WellFormed(resp) ==
    resp.candidates_ok /\ \A i \in DOMAIN resp.candidates : resp.candidates[i].content_ok

InlineIndexes(ps) == {i \in DOMAIN ps : ps[i].inline}

\* The payload of the first part that carries inline data.
FirstInlinePayload(ps) ==
    ps[CHOOSE i \in InlineIndexes(ps) : \A j \in InlineIndexes(ps) : i <= j].data

\* C7: for every well-formed response generate_gemini_image returns the
\* payload of the first part, in candidate order then part order, that
\* carries inline data (also when that payload is empty); no later part or
\* candidate changes the returned value.
C7_ReturnsFirstInlinePayload ==
    (/\ g_pc = "returned"
     /\ g_call.ok
     /\ WellFormed(g_call.response)
     /\ InlineIndexes(AllParts(g_call.response.candidates, 1)) # {}) =>
        g_result = FirstInlinePayload(AllParts(g_call.response.candidates, 1))

\* Some part the scan can look at carries inline data.
SomeInlinePart(resp) ==
    /\ resp.candidates_ok
    /\ \E i \in DOMAIN resp.candidates :
          /\ resp.candidates[i].content_ok
          /\ InlineIndexes(resp.candidates[i].parts) # {}

\* C8: generate_gemini_image never lets a failure reach its caller: a failed
\* model call, a failed parse of the response shape, or a response without
\* inline data gives None; a value other than None is the payload of some
\* part that carries inline data.
C8_FailuresBecomeNone ==
    g_pc = "returned" =>
        /\ g_result # Raised
        /\ ~g_call.ok => g_result = None
        /\ g_raised => g_result = None
        /\ (g_call.ok /\ ~SomeInlinePart(g_call.response)) => g_result = None
        /\ g_result # None =>
              /\ g_call.ok
              /\ \E i \in DOMAIN g_call.response.candidates :
                    \E j \in InlineIndexes(g_call.response.candidates[i].parts) :
                        g_call.response.candidates[i].parts[j].data = g_result

C8_Witness ==
    /\ g_pc = "returned"
    /\ g_call.ok
    /\ g_raised
    /\ g_result = None
    /\ Len(g_call.response.candidates) = 2
    /\ g_call.response.candidates[1] = [content_ok |-> TRUE, parts |-> <<[inline |-> TRUE, data |-> ""]>>]

\* C9: a failed upload is not handled by the endpoint: the request ends with
\* the generic 500 fault, the forward is never called, and the request never
\* produces a 200 response or an image_url.
C9_UploadFailureIsUnhandled ==
    \A r \in Reqs :
        upload_ok[r] = "failed" =>
            /\ pc[r] = "done"
            /\ response[r].status = 500
            /\ response[r].kind = "fault"
            /\ response[r].image_url = None
            /\ calls[r].upload = 1
            /\ calls[r].forward = 0
            /\ sent[r] = NotSent
            /\ public_url[r] = None

C9_Witness ==
    \E r \in Reqs :
        /\ upload_ok[r] = "failed"
        /\ image_bytes[r] = "A"
        /\ response[r] = FaultResponse

\* C10: no retry and no compensation: generation, upload and forward are each
\* invoked at most once per request, and when the forward fails after a
\* successful upload the object stays in storage with its bytes while the
\* response reports the error.
C10_NoRetryNoCompensation ==
    \A r \in Reqs :
        /\ calls[r].generate <= 1
        /\ calls[r].upload <= 1
        /\ calls[r].forward <= 1
        /\ (upload_ok[r] = "ok" /\ calls[r].forward > 0 /\ response[r].status \notin {0, 200}) =>
              /\ pc[r] = "done"
              /\ response[r].error # None
              /\ uploads[r][1] \in DOMAIN bucket
              /\ bucket[uploads[r][1]] = image_bytes[r]

C10_Witness ==
    \E r \in Reqs :
        /\ pc[r] = "done"
        /\ upload_ok[r] = "ok"
        /\ downstream[r].kind = "request_error"
        /\ response[r].status = 500
        /\ uploads[r][1] \in DOMAIN bucket

====
